---- MODULE Spec2Model ----
(***************************************************************************)
(* Model of generate.py: the per-species image pipeline.  main walks the   *)
(* species folders; process_species merges the metadata, downloads the     *)
(* candidate URLs through a ThreadPoolExecutor and tops the images         *)
(* directory up with augmented copies.                                     *)
(***************************************************************************)
EXTENDS Integers, Sequences, FiniteSets, TLC

(* ------------------------------ bounds --------------------------------- *)
\* Largest value of MAX_IMAGES_PER_SPECIES explored (the source sets 1000).
MaxTarget == 3
\* Largest value of MAX_THREADS explored (the source sets 16).
MaxThreads == 2
\* Number of species folders under ROOT_DIR.
NumSpecies == 2
\* Number of distinct URL strings that occur in the metadata.
NumUrls == 3
\* Largest number of rows of the merged data frame.
MaxRows == 3
\* Largest index of an Img file left in images/ by an earlier run.
MaxOld == 1

Urls == 1..NumUrls
\* pandas' missing value of the image_url column.
NaN == 0

VARIABLES
    target_count,     \* MAX_IMAGES_PER_SPECIES of this run
    max_workers,      \* MAX_THREADS of this run
    species_idx,      \* position of main's for loop in species_folders
    pc,               \* position of the main thread
    meta,             \* what the species folder holds: "none", "nocol", "ok"
    df,               \* the image_url column of the merged frame
    initial,          \* indices of the .jpg files in images/ at entry
    files,            \* images/: index of Img file -> its content
    urls,             \* the candidate list
    valid,            \* the URLs that answer with a decodable image
    futures,          \* one record per submitted download_image task
    attempts,         \* number of requests.get calls issued per position
    yielded,          \* futures as_completed has handed out
    downloaded,       \* the list `downloaded`
    downloaded_count,
    augment_count,
    existing_images,  \* the listing the augmentation samples from
    img_index,
    aug_written,      \* indices the augmentation loop has saved to
    src_kind          \* what the file last opened as source held

vars == <<target_count, max_workers, species_idx, pc, meta, df, initial,
          files, urls, valid, futures, attempts, yielded, downloaded,
          downloaded_count, augment_count, existing_images, img_index,
          aug_written, src_kind>>

config == <<target_count, max_workers>>
locals == <<urls, valid, futures, attempts, yielded, downloaded,
            downloaded_count, augment_count, existing_images, img_index,
            aug_written, src_kind>>

(* ----------------------------- helpers --------------------------------- *)
Range(s) == {s[i] : i \in 1..Len(s)}

Min(a, b) == IF a < b THEN a ELSE b

\* Sequences over S of length at most n.
SeqsUpTo(S, n) == UNION {[1..k -> S] : k \in 0..n}

\* Series.dropna(): the rows whose value is not missing, in order.
NotNa(v) == v # NaN
\* Variant: the missing values are kept.
DropNaKeepsMissing(rows) == rows
DropNa(rows) == SelectSeq(rows, NotNa)

\* Series.unique(): the values in order of first appearance.
RECURSIVE Unique(_)
Unique(s) ==
    IF s = <<>> THEN <<>>
    ELSE LET front == Unique(SubSeq(s, 1, Len(s) - 1))
             last == s[Len(s)]
         IN IF last \in Range(front) THEN front ELSE Append(front, last)

\* random.shuffle(): every ordering of the list.
Shuffles(s) ==
    {p \in [1..Len(s) -> Range(s)] :
        \A i \in 1..Len(s) :
            Cardinality({j \in 1..Len(s) : p[j] = s[i]})
                = Cardinality({j \in 1..Len(s) : s[j] = s[i]})}

\* Variant: the list is not cut.
TruncateNone(s, n) == s
\* Variant: the slice keeps one entry too many.
TruncateOneMore(s, n) == SubSeq(s, 1, Min(Len(s), n + 1))
\* urls[:MAX_IMAGES_PER_SPECIES]
Truncate(s, n) == SubSeq(s, 1, Min(Len(s), n))

\* Lines 83-85 for one outcome `p` of the shuffle.
Candidates(rows) ==
    {Truncate(p, target_count) : p \in Shuffles(Unique(DropNa(rows)))}

OldFile == [kind |-> "old", url |-> NaN]
AugFile == [kind |-> "aug", url |-> NaN]
DlFile(u) == [kind |-> "dl", url |-> u]

\* Image.save(path): creates or overwrites the file of index i.
Save(fs, i, c) ==
    [j \in (DOMAIN fs) \cup {i} |-> IF j = i THEN c ELSE fs[j]]

\* Variant: the candidates' names are taken for the listing.
ListJpgCandidateNames(fs) == (DOMAIN fs) \cup (1..Len(urls))
\* os.listdir(images_dir) filtered on ".jpg".
ListJpg(fs) == DOMAIN fs

\* Variant: enumerate(urls) counts from 0.
SavePathIndexZeroBased(idx) == idx - 1
\* Index in the file name a task is submitted with (enumerate(urls, 1)).
SavePathIndex(idx) == idx

Busy(f) == f.st \in {"running", "saved"}
NumBusy == Cardinality({i \in 1..Len(futures) : Busy(futures[i])})

\* Variant: one worker of the pool never takes work.
CanStartOneIdle(i) ==
    /\ futures[i].st = "queued"
    /\ \A j \in 1..(i - 1) : futures[j].st # "queued"
    /\ NumBusy < max_workers - 1
\* A worker takes the oldest work item when one of max_workers is free.
CanStart(i) ==
    /\ futures[i].st = "queued"
    /\ \A j \in 1..(i - 1) : futures[j].st # "queued"
    /\ NumBusy < max_workers

\* Variant: every finished future is counted.
DownloadedAfterAnyResult(d, i, res) == Append(d, i)
\* `if future.result(): downloaded.append(i)`
DownloadedAfter(d, i, res) == IF res THEN Append(d, i) ELSE d

\* Variant: the executor is not waited for.
FetchBatchJoinedNoWait == Len(futures) = Len(urls)
\* Variant: the first failed future ends the batch.
FetchBatchJoinedAbortOnFailure ==
    /\ Len(futures) = Len(urls)
    /\ \/ yielded = 1..Len(futures)
       \/ \E f \in yielded : ~futures[f].res
\* as_completed is exhausted and the with block has shut the executor down.
FetchBatchJoined ==
    /\ Len(futures) = Len(urls)
    /\ yielded = 1..Len(futures)

\* Variant: the top-up appends after the last candidate's name.
FirstAugIndexAfterCandidates(d) == Len(urls) + 1
\* Variant: the top-up starts over at the first index.
FirstAugIndexOne(d) == 1
\* img_index = downloaded_count + 1
FirstAugIndex(d) == d + 1

\* img_index += 1
NextImgIndex(i) == i + 1

\* Variant: only the missing .csv is tested.
SkipCategoryCsvOnly(m) == m = "none"
\* `if not csv_files` / `if "image_url" not in df.columns`
SkipCategory(m) == m \in {"none", "nocol"}

(* ------------------------------- Init ---------------------------------- *)
ResetLocals ==
    /\ urls' = <<>>
    /\ valid' = {}
    /\ futures' = <<>>
    /\ attempts' = <<>>
    /\ yielded' = {}
    /\ downloaded' = <<>>
    /\ downloaded_count' = 0
    /\ augment_count' = 0
    /\ existing_images' = {}
    /\ img_index' = 0
    /\ aug_written' = {}
    /\ src_kind' = "none"

Init ==
    /\ target_count \in 0..MaxTarget
    /\ max_workers \in 1..MaxThreads
    /\ species_idx = 0
    /\ pc = "main_loop"
    /\ meta = "unread"
    /\ df = <<>>
    /\ initial = {}
    /\ files = <<>>
    /\ urls = <<>>
    /\ valid = {}
    /\ futures = <<>>
    /\ attempts = <<>>
    /\ yielded = {}
    /\ downloaded = <<>>
    /\ downloaded_count = 0
    /\ augment_count = 0
    /\ existing_images = {}
    /\ img_index = 0
    /\ aug_written = {}
    /\ src_kind = "none"

(* ------------------------------- main ---------------------------------- *)
\* for species in species_folders: process_species(species) -- entry, up to
\* safe_mkdir(images_dir).  The folder's images/ may hold files of an
\* earlier run.
CallProcessSpecies ==
    /\ pc = "main_loop"
    /\ species_idx < NumSpecies
    /\ species_idx' = species_idx + 1
    /\ pc' = "process_species"
    /\ \E old \in SUBSET (1..MaxOld) :
          /\ initial' = old
          /\ files' = [j \in old |-> OldFile]
    /\ meta' = "unread"
    /\ df' = <<>>
    /\ ResetLocals
    /\ UNCHANGED config

\* The loop is exhausted: "All species processed successfully".
MainDone ==
    /\ pc = "main_loop"
    /\ species_idx = NumSpecies
    /\ pc' = "finished"
    /\ UNCHANGED <<config, species_idx, meta, df, initial, files, locals>>

\* process_species returns to main's loop.
Return ==
    /\ pc = "returned"
    /\ pc' = "main_loop"
    /\ UNCHANGED <<config, species_idx, meta, df, initial, files, locals>>

(* -------------------------- process_species ---------------------------- *)
\* No .csv in the folder: warning and return.
NoCsv ==
    /\ pc = "process_species"
    /\ meta' = "none"
    /\ pc' = IF SkipCategory("none") THEN "returned" ELSE "crashed"
    /\ UNCHANGED <<config, species_idx, df, initial, files, locals>>

\* The merged frame has no image_url column: warning and return.  Without
\* the test, df["image_url"] raises KeyError.
MissingColumn ==
    /\ pc = "process_species"
    /\ meta' = "nocol"
    /\ pc' = IF SkipCategory("nocol") THEN "returned" ELSE "crashed"
    /\ UNCHANGED <<config, species_idx, df, initial, files, locals>>

\* read_csv and concat, then dropna, unique, shuffle, truncate.  df is not
\* read after line 83: the model keeps it until the executor is in use.
LoadCandidates ==
    /\ pc = "process_species"
    /\ meta' = "ok"
    /\ \E rows \in SeqsUpTo(Urls \cup {NaN}, MaxRows) :
          \E c \in Candidates(rows) :
             /\ df' = rows
             /\ urls' = c
             /\ \E v \in SUBSET Range(c) : valid' = v
    /\ pc' = "submit"
    /\ UNCHANGED <<config, species_idx, initial, files, futures, attempts,
                   yielded, downloaded, downloaded_count, augment_count,
                   existing_images, img_index, aug_written,
                   src_kind>>

\* executor.submit(download_image, url, save_path) for the next idx.
Submit ==
    /\ pc = "submit"
    /\ Len(futures) < Len(urls)
    /\ futures' = Append(futures,
          [st |-> "queued", res |-> FALSE,
           url |-> urls[Len(futures) + 1],
           path |-> SavePathIndex(Len(futures) + 1)])
    /\ attempts' = Append(attempts, 0)
    /\ df' = <<>>
    /\ UNCHANGED <<config, species_idx, pc, meta, initial, files, urls, valid,
                   yielded, downloaded, downloaded_count, augment_count,
                   existing_images, img_index, aug_written,
                   src_kind>>

\* The submit loop is over; as_completed(futures) starts.
SubmitDone ==
    /\ pc = "submit"
    /\ Len(futures) = Len(urls)
    /\ pc' = "as_completed"
    /\ df' = <<>>
    /\ UNCHANGED <<config, species_idx, meta, initial, files, locals>>

\* A worker thread dequeues a work item and calls download_image:
\* requests.get is issued.
WorkerStart(i) ==
    /\ i \in 1..Len(futures)
    /\ CanStart(i)
    /\ futures' = [futures EXCEPT ![i].st = "running"]
    /\ attempts' = [attempts EXCEPT ![i] = @ + 1]
    /\ UNCHANGED <<config, species_idx, pc, meta, df, initial, files, urls,
                   valid,
                   yielded, downloaded, downloaded_count, augment_count,
                   existing_images, img_index, aug_written,
                   src_kind>>

\* The response is a decodable image: convert, resize, img.save(save_path).
WorkerSave(i) ==
    /\ i \in 1..Len(futures)
    /\ futures[i].st = "running"
    /\ futures[i].url \in valid
    /\ files' = Save(files, futures[i].path, DlFile(futures[i].url))
    /\ futures' = [futures EXCEPT ![i].st = "saved"]
    /\ UNCHANGED <<config, species_idx, pc, meta, df, initial, urls, valid,
                   attempts, yielded, downloaded, downloaded_count,
                   augment_count, existing_images, img_index, aug_written,
                   src_kind>>

\* return True
WorkerReturnTrue(i) ==
    /\ i \in 1..Len(futures)
    /\ futures[i].st = "saved"
    /\ futures' = [futures EXCEPT ![i].st = "done", ![i].res = TRUE]
    /\ UNCHANGED <<config, species_idx, pc, meta, df, initial, files, urls,
                   valid,
                   attempts, yielded, downloaded, downloaded_count,
                   augment_count, existing_images, img_index, aug_written,
                   src_kind>>

\* Timeout, transport error, bad status or undecodable payload:
\* except Exception: return False.
WorkerReturnFalse(i) ==
    /\ i \in 1..Len(futures)
    /\ futures[i].st = "running"
    /\ futures[i].url \notin valid
    /\ futures' = [futures EXCEPT ![i].st = "done", ![i].res = FALSE]
    /\ UNCHANGED <<config, species_idx, pc, meta, df, initial, files, urls,
                   valid,
                   attempts, yielded, downloaded, downloaded_count,
                   augment_count, existing_images, img_index, aug_written,
                   src_kind>>

\* One iteration of `for i, future in enumerate(as_completed(futures), 1)`:
\* as_completed hands out some finished future not handed out before.
AsCompletedNext ==
    /\ pc = "as_completed"
    /\ \E f \in (1..Len(futures)) \ yielded :
          /\ futures[f].st = "done"
          /\ yielded' = yielded \cup {f}
          /\ downloaded' = DownloadedAfter(downloaded, Cardinality(yielded) + 1,
                                           futures[f].res)
    /\ UNCHANGED <<config, species_idx, pc, meta, df, initial, files, urls,
                   valid,
                   futures, attempts, downloaded_count, augment_count,
                   existing_images, img_index, aug_written,
                   src_kind>>

\* The with block is left; downloaded_count = len(downloaded).
Join ==
    /\ pc = "as_completed"
    /\ FetchBatchJoined
    /\ downloaded_count' = Len(downloaded)
    /\ augment_count' = 0
    /\ pc' = "joined"
    /\ UNCHANGED <<config, species_idx, meta, df, initial, files, urls,
                   valid,
                   futures, attempts, yielded, downloaded, existing_images,
                   img_index, aug_written, src_kind>>

\* if downloaded_count < MAX_IMAGES_PER_SPECIES: list images/ and set
\* img_index; otherwise go to the final log.
AugmentationNeeded ==
    /\ pc = "joined"
    /\ IF downloaded_count < target_count
          THEN /\ existing_images' = ListJpg(files)
               /\ img_index' = FirstAugIndex(downloaded_count)
               /\ pc' = "augment"
          ELSE /\ pc' = "report"
               /\ UNCHANGED <<existing_images, img_index>>
    /\ UNCHANGED <<config, species_idx, meta, df, initial, files, urls,
                   valid,
                   futures, attempts, yielded, downloaded, downloaded_count,
                   augment_count, aug_written, src_kind>>

\* One iteration of the while loop: sample, open, augment, save.
AugmentOne ==
    /\ pc = "augment"
    /\ img_index <= target_count
    /\ existing_images # {}
    /\ \E src \in existing_images :
          /\ src_kind' = files[src].kind
          /\ files' = Save(files, img_index, AugFile)
    /\ aug_written' = aug_written \cup {img_index}
    /\ augment_count' = augment_count + 1
    /\ img_index' = NextImgIndex(img_index)
    /\ UNCHANGED <<config, species_idx, pc, meta, df, initial, urls, valid,
                   futures, attempts, yielded, downloaded, downloaded_count,
                   existing_images>>

\* random.choice([]) raises IndexError, which nothing catches: the
\* interpreter leaves main with a traceback.
AugmentCrash ==
    /\ pc = "augment"
    /\ img_index <= target_count
    /\ existing_images = {}
    /\ pc' = "crashed"
    /\ UNCHANGED <<config, species_idx, meta, df, initial, files, locals>>

\* The while condition fails.
AugmentDone ==
    /\ pc = "augment"
    /\ img_index > target_count
    /\ pc' = "report"
    /\ UNCHANGED <<config, species_idx, meta, df, initial, files, locals>>

\* The final tally is logged and process_species returns.
Report ==
    /\ pc = "report"
    /\ pc' = "returned"
    /\ UNCHANGED <<config, species_idx, meta, df, initial, files, locals>>

Next ==
    \/ CallProcessSpecies
    \/ MainDone
    \/ Return
    \/ NoCsv
    \/ MissingColumn
    \/ LoadCandidates
    \/ Submit
    \/ SubmitDone
    \/ \E i \in 1..Len(futures) : WorkerStart(i)
    \/ \E i \in 1..Len(futures) : WorkerSave(i)
    \/ \E i \in 1..Len(futures) : WorkerReturnTrue(i)
    \/ \E i \in 1..Len(futures) : WorkerReturnFalse(i)
    \/ AsCompletedNext
    \/ Join
    \/ AugmentationNeeded
    \/ AugmentOne
    \/ AugmentCrash
    \/ AugmentDone
    \/ Report

Spec == Init /\ [][Next]_vars

\* The steps of the main thread, and those of the executor's workers.
MainStep ==
    \/ CallProcessSpecies
    \/ MainDone
    \/ Return
    \/ NoCsv
    \/ MissingColumn
    \/ LoadCandidates
    \/ Submit
    \/ SubmitDone
    \/ AsCompletedNext
    \/ Join
    \/ AugmentationNeeded
    \/ AugmentOne
    \/ AugmentCrash
    \/ AugmentDone
    \/ Report

WorkerStep ==
    \E i \in 1..Len(futures) :
        \/ WorkerStart(i)
        \/ WorkerSave(i)
        \/ WorkerReturnTrue(i)
        \/ WorkerReturnFalse(i)

\* The threads are scheduled fairly and every requests.get returns (the
\* timeout of line 32).
FairSpec == Spec /\ WF_vars(MainStep) /\ WF_vars(WorkerStep)

(* ------------------------------ claims --------------------------------- *)
\* The main thread is past the with block of the current species.
PostJoin == pc \in {"joined", "augment", "report", "returned", "crashed"}

\* K of the batch: the positions whose URL answers with a decodable image.
ValidPositions == {i \in 1..Len(urls) : urls[i] \in valid}

AllDone == \A i \in 1..Len(futures) : futures[i].st = "done"

\* C1: after process_species completes for a species with at least one
\* successful download, the images directory holds exactly target_count
\* files, of indices 1..target_count.
C1_ExactlyTargetContiguous ==
    (pc = "returned" /\ meta = "ok" /\ downloaded_count >= 1)
        => DOMAIN files = 1..target_count

\* C2: when the batch reports D < target_count, the top-up loop produces
\* exactly target_count - D files, of indices D+1..target_count.
C2_TopUpFillsShortfall ==
    (pc \in {"report", "returned", "crashed"} /\ meta = "ok"
        /\ downloaded_count < target_count)
        => /\ augment_count = target_count - downloaded_count
           /\ aug_written = (downloaded_count + 1)..target_count

\* C3: the batch reports downloaded_count = K, the number of candidates that
\* are fetchable images, whatever max_workers and the interleaving are.
C3_ReportsK ==
    /\ (PostJoin /\ meta = "ok")
          => downloaded_count = Cardinality(ValidPositions)
    /\ (pc = "as_completed" /\ FetchBatchJoined)
          => Len(downloaded) = Cardinality(ValidPositions)

C3_Witness ==
    /\ pc = "joined"
    /\ Len(urls) = 3
    /\ max_workers = 2
    /\ downloaded = <<1, 3>>
    /\ ValidPositions = {1, 3}

\* C4: with zero successful downloads and target_count > 0 the top-up does
\* not crash.
C4_ZeroDownloadsNoCrash ==
    (PostJoin /\ meta = "ok" /\ downloaded_count = 0 /\ target_count > 0)
        => pc # "crashed"

\* C5: the run ends only after process_species was called on every species
\* folder, whatever failed in an earlier one.
C5_EveryCategoryAttempted ==
    pc \in {"finished", "crashed"} => species_idx = NumSpecies

\* C6: while the top-up lists or writes the images directory, every fetch
\* task of the species has finished.
C6_JoinBarrier ==
    /\ pc \in {"joined", "augment", "report", "returned"}
          => (Len(futures) = Len(urls) /\ AllDone)
    /\ aug_written # {} => AllDone

C6_Witness ==
    /\ pc = "augment"
    /\ aug_written # {}
    /\ Len(futures) = 2
    /\ max_workers = 2
    /\ img_index <= target_count

\* C7: the candidate list has at most target_count entries, no missing
\* value and no URL twice, and holds only URLs of the metadata rows.
C7_CandidatesWellFormed ==
    /\ Len(urls) <= target_count
    /\ NaN \notin Range(urls)
    /\ \A i, j \in 1..Len(urls) : urls[i] = urls[j] => i = j
    /\ \A i \in 1..Len(futures) : futures[i].url = urls[i]
    /\ (pc = "submit" /\ futures = <<>>) => Range(urls) \subseteq Range(df)

C7_Witness ==
    /\ pc = "submit"
    /\ futures = <<>>
    /\ target_count = 1
    /\ Len(df) = 3
    /\ NaN \in Range(df)
    /\ Cardinality(Range(df)) = 3
    /\ Len(urls) = 1

\* C8: every candidate is attempted exactly once; a failed item is a
\* non-success and keeps no other item from being attempted.
C8_EveryCandidateAttemptedOnce ==
    /\ \A i \in 1..Len(attempts) : attempts[i] <= 1
    /\ (PostJoin /\ meta = "ok")
          => /\ Len(attempts) = Len(urls)
             /\ \A i \in 1..Len(urls) : attempts[i] = 1
             /\ \A i \in 1..Len(urls) : futures[i].res = (urls[i] \in valid)

C8_Witness ==
    /\ pc = "joined"
    /\ max_workers = 1
    /\ Len(urls) = 3
    /\ ValidPositions = {3}
    /\ attempts = <<1, 1, 1>>

\* C9: a species without .csv, or without image_url column, is skipped:
\* no fetch is attempted, no image file is written, and the run goes on
\* with the next species.
C9_SkippedCategory ==
    meta \in {"none", "nocol"}
        => /\ pc \in {"returned", "main_loop", "finished"}
           /\ futures = <<>>
           /\ attempts = <<>>
           /\ files = [j \in initial |-> OldFile]
           /\ (pc = "main_loop" /\ species_idx < NumSpecies)
                 => ENABLED CallProcessSpecies

C9_Witness ==
    /\ meta = "nocol"
    /\ pc = "main_loop"
    /\ species_idx = 1
    /\ initial # {}

\* C10: a downloaded image is stored under the index of its candidate's
\* position in the list, whatever the order of completion.
C10_NamedByPosition ==
    /\ \A j \in DOMAIN files :
          files[j].kind = "dl"
              => (j \in 1..Len(urls) /\ files[j].url = urls[j])
    /\ pc \in {"submit", "as_completed", "joined"}
          => \A i \in 1..Len(futures) :
                futures[i].res => (i \in DOMAIN files
                                     /\ files[i] = DlFile(urls[i]))

C10_Witness ==
    /\ Len(futures) = 3
    /\ futures[1].st = "running"
    /\ futures[2].st = "done"
    /\ futures[2].res
    /\ files[2] = DlFile(urls[2])
    /\ 1 \notin DOMAIN files

\* C11: with target_count = 0 no fetch is attempted, nothing is augmented
\* and no output file is written: images/ stays as it was at entry, empty
\* when it was empty.
C11_ZeroTarget ==
    target_count = 0
        => /\ urls = <<>>
           /\ futures = <<>>
           /\ attempts = <<>>
           /\ augment_count = 0
           /\ aug_written = {}
           /\ pc # "crashed"
           /\ files = [j \in initial |-> OldFile]
           /\ initial = {} => DOMAIN files = {}

C11_Witness ==
    /\ target_count = 0
    /\ meta = "ok"
    /\ pc = "returned"
    /\ initial = {}
    /\ files = <<>>

\* C12: downloaded_count <= target_count in every state, the list
\* `downloaded` and the number of fetchable candidates included.
C12_DownloadedAtMostTarget ==
    /\ downloaded_count <= target_count
    /\ Len(downloaded) <= target_count
    /\ Cardinality(ValidPositions) <= target_count

C12_Witness ==
    /\ pc = "joined"
    /\ target_count = 2
    /\ downloaded_count = 2
    /\ initial = {}

\* C13: the outcome of process_species is the one of a run on an empty
\* images directory, whatever .jpg files the directory held at entry: the
\* same downloaded_count, the same pool, the same augment_count, and a
\* failure exactly when no download succeeded and target_count > 0.
C13_NoCrossRunState ==
    (pc \in {"returned", "crashed"} /\ meta = "ok")
        => LET K == Cardinality(ValidPositions)
           IN /\ downloaded_count = K
              /\ (pc = "crashed") <=> (K = 0 /\ target_count > 0)
              /\ existing_images =
                    (IF K < target_count THEN ValidPositions ELSE {})
              /\ pc = "returned" =>
                    augment_count =
                        (IF K < target_count THEN target_count - K ELSE 0)

\* C14: an index of 1..len(urls) whose download failed is never written by
\* the top-up loop and is still a gap when the species completes.
C14_FailedIndexNeverWritten ==
    \A i \in 1..Len(futures) :
        (futures[i].st = "done" /\ ~futures[i].res)
            => /\ i \notin aug_written
               /\ (pc = "returned" /\ i \notin initial)
                     => i \notin DOMAIN files

\* C14 amended: a failed index that is at most downloaded_count is never
\* written by the top-up loop, which writes indices from downloaded_count + 1
\* on only; it holds no file of this run when the species completes.
C14_FailedIndexUpToCountNeverWritten ==
    PostJoin
        => /\ \A j \in aug_written : j > downloaded_count
           /\ \A i \in 1..Len(futures) :
                 (futures[i].st = "done" /\ ~futures[i].res
                     /\ i <= downloaded_count)
                     => /\ i \notin aug_written
                        /\ i \in DOMAIN files <=> i \in initial
                        /\ i \in DOMAIN files => files[i] = OldFile

C14_Witness ==
    /\ pc = "returned"
    /\ initial = {}
    /\ Len(urls) = 3
    /\ ValidPositions = {2, 3}
    /\ aug_written = {3}
    /\ DOMAIN files = {2, 3}

\* C15: for an images directory empty at entry, the listing the top-up
\* samples from is exactly the set of files the successful fetches wrote; a
\* failed fetch writes no file.
C15_PoolIsSuccessfulFetches ==
    initial = {}
        => /\ (pc \in {"augment", "report", "returned", "crashed"}
                 /\ meta = "ok" /\ downloaded_count < target_count)
                 => existing_images = ValidPositions
           /\ aug_written = {}
                 => DOMAIN files =
                       {i \in 1..Len(futures) :
                           /\ futures[i].st \in {"saved", "done"}
                           /\ futures[i].url \in valid}
           /\ \A i \in existing_images :
                 i \in 1..Len(futures) /\ futures[i].res

C15_Witness ==
    /\ pc = "augment"
    /\ initial = {}
    /\ Len(urls) = 3
    /\ existing_images = {1, 3}
    /\ aug_written = {}
    /\ futures[2].st = "done"
    /\ ~futures[2].res

\* C16: the file a top-up iteration opens as its source holds, when it is
\* read, an image the fetch pool wrote.
C16_SourceIsDownloaded == src_kind \in {"none", "dl"}

\* C17: the top-up loop writes no index of a successfully downloaded image.
C17_NoOverwriteOfDownload ==
    \A j \in aug_written : ~(j \in 1..Len(futures) /\ futures[j].res)

\* C18: on completion with S the successful positions, 1 <= D = |S| <
\* target_count and images/ empty at entry, the files are exactly those of
\* indices S \cup D+1..target_count; there are target_count of them exactly
\* when S = 1..D.
C18_FinalFileSet ==
    (pc = "returned" /\ meta = "ok" /\ initial = {}
        /\ 1 <= Cardinality(ValidPositions)
        /\ Cardinality(ValidPositions) < target_count)
        => LET S == ValidPositions
               D == Cardinality(S)
           IN /\ downloaded_count = D
              /\ DOMAIN files = S \cup ((D + 1)..target_count)
              /\ (Cardinality(DOMAIN files) = target_count) <=> (S = 1..D)

C18_Witness ==
    /\ pc = "returned"
    /\ meta = "ok"
    /\ initial = {}
    /\ target_count = 3
    /\ Len(urls) = 2
    /\ ValidPositions = {2}
    /\ DOMAIN files = {2, 3}

\* C19: under fair scheduling, with every fetch returning, a species with
\* at least one fetchable candidate is processed to the end: every future is
\* joined, img_index goes up by one per iteration until it exceeds
\* target_count, and the tally is reported.
C19_Terminates ==
    /\ (meta = "ok" /\ pc = "submit" /\ valid # {})
          ~> (/\ pc = "returned"
              /\ AllDone
              /\ yielded = 1..Len(urls)
              /\ downloaded_count + augment_count = target_count
              /\ downloaded_count < target_count
                    => img_index = target_count + 1)
    /\ [][(pc = "augment" /\ pc' = "augment")
            => (img_index <= target_count /\ img_index' = img_index + 1)]_vars

C19_Witness ==
    /\ pc = "returned"
    /\ meta = "ok"
    /\ valid # {}
    /\ Len(urls) = 2
    /\ target_count = 3
    /\ augment_count = 2
    /\ img_index = 4

====
